---- MODULE Spec2Model ----
(***************************************************************************)
(* web2app: a command-line tool that creates and removes desktop launcher  *)
(* entries for web pages (src/web2app.py).                                 *)
(*                                                                         *)
(* A Python str is modelled as a non-empty sequence of tokens, so that     *)
(* startswith, split and urlparse are computed on the text and not assumed:*)
(*    "myapp"                    <<"myapp">>                               *)
(*    "--platform=wayland"       <<"--platform=", "wayland">>              *)
(*    "https://example.com/i.png"                                          *)
(*                     <<"https", "://", "example.com", "", "/i.png">>     *)
(*    "http://:8080"             <<"http", "://", "", ":8080", "">>        *)
(* (a URL is scheme, "://", host, port part, rest).  Python's None is the  *)
(* empty sequence.  The file system is the applications directory: the set *)
(* of directories that exist, the <name>.desktop files and the             *)
(* icons/<name>.png files, each a function from the names that exist.      *)
(* One invocation of the program is one step.                              *)
(***************************************************************************)
EXTENDS Integers, Sequences, FiniteSets, TLC

VARIABLES
    dirs,      \* which of "apps" (~/.local/share/applications), "icons" exist
    desktop,   \* name -> [content, mode] for every existing <name>.desktop
    icons,     \* name -> bytes for every existing icons/<name>.png
    PATH,      \* the executables shutil.which finds
    environ,   \* os.environ: WAYLAND_DISPLAY, XDG_SESSION_TYPE ("" = unset)
    last,      \* the last run: argv, the server's answers, exit status, output,
               \* requests sent, the app it created (None if none), the
               \* directories as they were before it
    prev       \* the run before it: the app it created and, if it created one,
               \* the directories as they were before it

vars == <<dirs, desktop, icons, PATH, environ, last, prev>>

None == <<>>

\* ------------------------------------------------------------ detection

SUPPORTED_BROWSERS ==
    << "helium-browser", "chromium", "chromium-browser", "google-chrome",
       "google-chrome-stable", "brave-browser", "brave", "microsoft-edge",
       "microsoft-edge-stable" >>

which(exe, path) == exe \in path

RECURSIVE detect_from(_, _)
detect_from(i, path) ==
    IF i > Len(SUPPORTED_BROWSERS) THEN None
    ELSE IF which(SUPPORTED_BROWSERS[i], path) THEN <<SUPPORTED_BROWSERS[i]>>
    ELSE detect_from(i + 1, path)

RECURSIVE detect_from_end(_, _)
detect_from_end(i, path) ==
    IF i < 1 THEN None
    ELSE IF which(SUPPORTED_BROWSERS[i], path) THEN <<SUPPORTED_BROWSERS[i]>>
    ELSE detect_from_end(i - 1, path)

\* a detection that scans the preference list from its end
detect_browser_reversed(path) == detect_from_end(Len(SUPPORTED_BROWSERS), path)

detect_browser(path) == detect_from(1, path)

detect_display_server(env) ==
    IF env.WAYLAND_DISPLAY # "" THEN <<"wayland">>
    ELSE IF env.XDG_SESSION_TYPE = "wayland" THEN <<"wayland">>
    ELSE <<"x11">>

\* ------------------------------------------------------------ URLs

\* urllib.parse.urlparse: the scheme is what precedes "://", the netloc is
\* everything between "://" and the path (host and port part together); a text
\* without "://" has neither.  An unbalanced "[" in the netloc raises ValueError.
urlparse(url) ==
    IF Len(url) >= 4 /\ url[2] = "://"
    THEN [raises |-> url[3] = "[", scheme |-> url[1],
          netloc |-> <<url[3], url[4]>>, hostname |-> url[3]]
    ELSE [raises |-> FALSE, scheme |-> "", netloc |-> <<"", "">>, hostname |-> ""]

\* `not parsed.netloc`
netloc_empty(parsed) == parsed.netloc = <<"", "">>

validate_url(url, url_type) ==
    LET parsed == urlparse(url) IN
    IF parsed.raises
    THEN [ok |-> FALSE, out |-> << <<"[ERROR] failed to parse ", url_type>> >>]
    ELSE IF parsed.scheme \notin {"http", "https"}
    THEN [ok |-> FALSE,
          out |-> << <<"[ERROR] invalid ", url_type>>,
                     <<"-> ", url_type, " must start with http:// or https://">> >>]
    ELSE IF netloc_empty(parsed)
    THEN [ok |-> FALSE,
          out |-> << <<"[ERROR] invalid ", url_type>>,
                     <<"-> ", url_type, " is missing a domain">> >>]
    ELSE [ok |-> TRUE, out |-> <<>>]

\* requests.head / requests.get followed by raise_for_status.  A URL without a
\* scheme raises MissingSchema and one without a host InvalidURL, both before
\* anything is sent; otherwise the request is sent and the server's answer
\* `resp` decides: "unreachable" raises ConnectionError, "404" HTTPError.
request(method, url, resp) ==
    LET parsed == urlparse(url) IN
    IF parsed.scheme = "" THEN [sent |-> <<>>, raised |-> "MissingSchema"]
    ELSE IF parsed.hostname = "" THEN [sent |-> <<>>, raised |-> "InvalidURL"]
    ELSE [sent |-> << [method |-> method, url |-> url, resp |-> resp] >>,
          raised |-> CASE resp = "unreachable" -> "ConnectionError"
                       [] resp = "404" -> "HTTPError"
                       [] OTHER -> "none"]

valid_types ==
    {"image/png", "image/x-icon", "image/ico", "image/jpeg", "image/svg+xml", "image/webp"}

validate_icon_url(url, resp) ==
    LET v == validate_url(url, "icon URL") IN
    IF ~v.ok THEN [ok |-> FALSE, out |-> v.out, net |-> <<>>]
    ELSE LET r == request("HEAD", url, resp) IN
         IF r.raised # "none"
         THEN [ok |-> TRUE, net |-> r.sent,
               out |-> << <<"[WARNING] could not verify icon URL">> >>]
         ELSE IF resp \notin valid_types
         THEN [ok |-> TRUE, net |-> r.sent,
               out |-> << <<"[WARNING] icon URL may not be a valid image">> >>]
         ELSE [ok |-> TRUE, net |-> r.sent, out |-> <<>>]

\* ------------------------------------------------------------ file system

\* A running process: the file system it sees, what it printed, the requests
\* it sent, whether and how it has exited, and (for the record) the name of
\* the app it reported as created.
Process(d, f, i) ==
    [dirs |-> d, desktop |-> f, icons |-> i, out |-> <<>>, net |-> <<>>,
     exited |-> FALSE, status |-> 0, created |-> None]

print(w, lines) == [w EXCEPT !.out = @ \o lines]

exit(w, code) == [w EXCEPT !.exited = TRUE, !.status = code]

\* Path.mkdir(exist_ok=True, parents=True) on the icons directory
mkdir_icon_dir(w) == [w EXCEPT !.dirs = @ \cup {"apps", "icons"}]

write(files, name, data) ==
    [n \in DOMAIN files \cup {name} |-> IF n = name THEN data ELSE files[n]]

unlink(files, name) == [n \in DOMAIN files \ {name} |-> files[n]]

Mode0755 == 493

icon_path_of(name) == <<"~/.local/share/applications/icons/">> \o name \o <<".png">>

\* ------------------------------------------------------------ operations

\* opens the file for writing before the request is made
download_file_truncating(url, name, resp, w) ==
    LET r  == request("GET", url, resp)
        w1 == [w EXCEPT !.net = @ \o r.sent, !.icons = write(@, name, <<>>)]
    IN  IF r.raised = "none"
        THEN [w1 EXCEPT !.icons = write(@, name, <<url, resp>>)]
        ELSE exit(print(w1, << <<"[ERROR] failed to download file">> >>), 1)

\* The file is opened and written only after raise_for_status has passed.
\* HTTPError and MissingSchema are reported and exit(1); any other exception
\* of requests (ConnectionError, InvalidURL) is not caught: the interpreter
\* prints the traceback and the process ends with status 1.
download_file(url, name, resp, w) ==
    LET r  == request("GET", url, resp)
        w1 == [w EXCEPT !.net = @ \o r.sent]
    IN  CASE r.raised = "none" ->
               [w1 EXCEPT !.icons = write(@, name, <<url, resp>>)]
          [] r.raised = "HTTPError" ->
               exit(print(w1, << <<"[ERROR] failed to download file">> >>), 1)
          [] r.raised = "MissingSchema" ->
               exit(print(w1, << <<"[ERROR] failed to parse icon url">> >>), 1)
          [] OTHER ->
               exit(print(w1, << <<"Traceback (most recent call last)">> >>), 1)

\* the f-string of write_desktop_file, line by line as the file holds it (the
\* literal opens with a line break, so the first line of the file is empty)
desktop_content(url, name, icon_path, platform, browser) ==
    LET platform_flag ==
            IF platform # None /\ platform # <<"">>
            THEN <<"--ozone-platform=">> \o platform ELSE <<"">>
    IN  << <<"">>,
           <<"[Desktop Entry]">>,
           <<"Version=1.0">>,
           <<"Name=">> \o name,
           <<"Comment=">> \o name,
           <<"Exec=">> \o browser \o <<" --new-window ">> \o platform_flag
               \o <<" --app=">> \o url \o <<" --name=">> \o name
               \o <<" --class=">> \o name,
           <<">>>>>>> f03086e (feat: support multiple Chromium-based browsers)">>,
           <<"Terminal=false">>,
           <<"Type=Application">>,
           <<"Icon=">> \o icon_path,
           <<"StartupNotify=true">> >>

write_desktop_file(url, name, icon_path, platform, browser, w) ==
    [w EXCEPT !.desktop =
        write(@, name,
              [content |-> desktop_content(url, name, icon_path, platform, browser),
               mode |-> Mode0755])]

\* writes the entry before the icon is fetched
create_app_entry_first(name, url, icon_url, platform, browser, env, path, head, get, w) ==
    LET v1 == validate_url(url, "webapp URL")
        v2 == validate_icon_url(icon_url, head)
        w2 == [print(w, v2.out) EXCEPT !.net = @ \o v2.net]
        p  == IF platform = None THEN detect_display_server(env) ELSE platform
        b  == IF browser = None THEN detect_browser(path) ELSE browser
    IN  IF ~v1.ok THEN exit(print(w, v1.out), 1)
        ELSE IF ~v2.ok THEN exit(w2, 1)
        ELSE IF b = None
        THEN exit(print(w2, << <<"[ERROR] no supported browser found.">> >>), 1)
        ELSE download_file(icon_url, name, get,
                 write_desktop_file(url, name, icon_path_of(name), p, b,
                                    mkdir_icon_dir(w2)))

create_app(name, url, icon_url, platform, browser, env, path, head, get, w) ==
    LET v1 == validate_url(url, "webapp URL")
        v2 == validate_icon_url(icon_url, head)
        w2 == [print(w, v2.out) EXCEPT !.net = @ \o v2.net]
        p  == IF platform = None THEN detect_display_server(env) ELSE platform
        b  == IF browser = None THEN detect_browser(path) ELSE browser
    IN  IF ~v1.ok THEN exit(print(w, v1.out), 1)
        ELSE IF ~v2.ok THEN exit(w2, 1)
        ELSE IF b = None
        THEN exit(print(w2, << <<"[ERROR] no supported browser found.">>,
                               <<"-> supported browsers: ">> >>), 1)
        ELSE LET w3 == download_file(icon_url, name, get, mkdir_icon_dir(w2))
             IN  IF w3.exited THEN w3
                 ELSE write_desktop_file(url, name, icon_path_of(name), p, b, w3)

\* deletes the icon whether or not the entry exists
remove_app_icon_first(name, w) ==
    LET w1 == mkdir_icon_dir(w)
        w2 == [w1 EXCEPT !.icons = unlink(@, name)]
    IN  IF name \notin DOMAIN w1.desktop
        THEN exit(print(w2, << <<"[ERROR] webapp does not exist.">> >>), 1)
        ELSE [w2 EXCEPT !.desktop = unlink(@, name)]

\* deletes the entry and leaves the icon
remove_app_entry_only(name, w) ==
    LET w1 == mkdir_icon_dir(w) IN
    IF name \notin DOMAIN w1.desktop
    THEN exit(print(w1, << <<"[ERROR] webapp does not exist.">> >>), 1)
    ELSE [w1 EXCEPT !.desktop = unlink(@, name)]

\* treats a missing icon as a fatal error
remove_app_strict(name, w) ==
    LET w1 == mkdir_icon_dir(w) IN
    IF name \notin DOMAIN w1.desktop \/ name \notin DOMAIN w1.icons
    THEN exit(print(w1, << <<"[ERROR] webapp does not exist.">> >>), 1)
    ELSE [w1 EXCEPT !.desktop = unlink(@, name), !.icons = unlink(@, name)]

remove_app(name, w) ==
    LET w1 == mkdir_icon_dir(w) IN
    IF name \notin DOMAIN w1.desktop
    THEN exit(print(w1, << <<"[ERROR] webapp does not exist.">>,
                           <<"-> tip: make sure that the case is matching.">> >>), 1)
    ELSE IF name \notin DOMAIN w1.icons
    THEN [print(w1, << <<"[WARNING] webapp icon not found.">> >>)
            EXCEPT !.desktop = unlink(@, name)]
    ELSE [w1 EXCEPT !.desktop = unlink(@, name), !.icons = unlink(@, name)]

usage(w) == print(w, << <<"Usage: <SUBCOMMAND> [ARGS]">> >>)

\* ------------------------------------------------------------ command line

startswith(arg, prefix) == Len(arg) >= 1 /\ arg[1] = prefix

\* arg.split("=", 1)[1] of an argument that starts with "--<flag>="
split_value(arg) == Tail(arg)

\* One iteration of the loop over the arguments of `add`.  The test for
\* "--browser=" is a second `if`, not an `elif`: its `else` branch appends
\* every argument that is not a --browser= flag, a --platform= flag included.
parse_arg(arg, acc) ==
    LET platform == split_value(arg)
        a1 == IF startswith(arg, "--platform=")
              THEN IF platform \notin {<<"wayland">>, <<"x11">>}
                   THEN [acc EXCEPT !.platform = platform,
                            !.w = exit(usage(print(@, << <<"[ERROR] invalid platform">> >>)), 1)]
                   ELSE [acc EXCEPT !.platform = platform]
              ELSE acc
    IN  IF a1.w.exited THEN a1
        ELSE IF startswith(arg, "--browser=")
        THEN [a1 EXCEPT !.browser = split_value(arg)]
        ELSE [a1 EXCEPT !.positional_args = Append(@, arg)]

RECURSIVE parse_args(_, _)
parse_args(args, acc) ==
    IF args = <<>> \/ acc.w.exited THEN acc
    ELSE parse_args(Tail(args), parse_arg(Head(args), acc))

main(argv, env, path, head, get, w) ==
    IF Len(argv) < 1
    THEN exit(usage(print(w, << <<"[ERROR] no subcommand provided.">> >>)), 1)
    ELSE
    LET subcommand == Head(argv)
        args == Tail(argv)
    IN  CASE subcommand = <<"add">> ->
               LET p == parse_args(args, [platform |-> None, browser |-> None,
                                          positional_args |-> <<>>, w |-> w])
               IN  IF p.w.exited THEN p.w
                   ELSE IF Len(p.positional_args) < 3
                   THEN exit(usage(print(p.w, << <<"[ERROR] not enough arguments provided.">> >>)), 1)
                   ELSE IF Len(p.positional_args) > 3
                   THEN exit(usage(print(p.w, << <<"[ERROR] too many arguments provided.">> >>)), 1)
                   ELSE LET w1 == create_app(p.positional_args[1], p.positional_args[2],
                                             p.positional_args[3], p.platform, p.browser,
                                             env, path, head, get, p.w)
                        IN  IF w1.exited THEN w1
                            ELSE [exit(print(w1, << <<"web-app created successfully.">> >>), 0)
                                    EXCEPT !.created = p.positional_args[1]]
          [] subcommand = <<"remove">> ->
               IF Len(args) < 1
               THEN exit(usage(print(w, << <<"[ERROR] not enough arguments provided.">> >>)), 1)
               ELSE IF Len(args) > 1
               THEN exit(usage(print(w, << <<"[ERROR] too many arguments provided.">> >>)), 1)
               ELSE LET w1 == remove_app(args[1], w)
                    IN  IF w1.exited THEN w1
                        ELSE exit(print(w1, << <<"web-app deleted successfully.">> >>), 0)
          [] subcommand = <<"help">> -> exit(usage(w), 0)
          [] OTHER ->
               exit(usage(print(w, << <<"[ERROR] unknown subcommand provided.">> >>)), 1)

\* ------------------------------------------------------------ inputs

AppNames == << <<"myapp">>, <<"other">>, <<"third">> >>
NumNames == 2
Names == { AppNames[k] : k \in 1..NumNames }

GoodUrl == <<"https", "://", "example.com", "", "/">>
GoodIconUrl == <<"https", "://", "example.com", "", "/icon.png">>

BadUrls ==
    { <<"ftp", "://", "example.com", "", "/icon.png">>,   \* scheme not http(s)
      <<"example.com/icon.png">>,                        \* no scheme at all
      <<"https", "://", "", "", "">>,                     \* "https://": no netloc
      <<"http", "://", "", ":8080", "">>,                 \* "http://:8080": no host
      <<"http", "://", "[", "", "">> }                    \* urlparse raises

Flags ==
    { <<"--platform=", "wayland">>, <<"--platform=", "x11">>,
      <<"--platform=", "bogus">>, <<"--browser=", "firefox">> }

InsertAt(s, k, x) == SubSeq(s, 1, k) \o <<x>> \o SubSeq(s, k + 1, Len(s))

\* well-formed command lines of `add`, and ones whose icon URL has no scheme
\* or no host
AddArgs ==
    { <<n, GoodUrl, i>> :
        n \in Names,
        i \in {GoodIconUrl, <<"example.com/icon.png">>, <<"http", "://", "", ":8080", "">>} }

\* the command lines of `add` for one name: a bad URL in either place, the wrong
\* arities, and a flag at every position of a well-formed command line
AddArgsCli ==
    { << <<"myapp">>, u, GoodIconUrl >> : u \in {GoodUrl} \cup BadUrls }
    \cup { << <<"myapp">>, GoodUrl, i >> : i \in BadUrls }
    \cup { << <<"myapp">>, u, u >> : u \in BadUrls }
    \cup { <<>>, << <<"myapp">>, GoodUrl >>,
           << <<"myapp">>, GoodUrl, GoodIconUrl, <<"other">> >> }
    \cup { InsertAt(<< <<"myapp">>, GoodUrl, GoodIconUrl >>, k, f) :
             k \in 0..3, f \in Flags }
    \cup { InsertAt(<< GoodUrl, GoodIconUrl >>, k, f) : k \in 0..2, f \in Flags }

RemoveArgs == { <<n>> : n \in Names }

RemoveArgsCli == { <<>>, << <<"myapp">> >>, << <<"myapp">>, <<"other">> >> }

\* what the icon's server may answer: an image, a page, an error status, nothing
HeadResponses == {"image/png", "text/html", "unreachable"}
GetResponses == {"image/png", "404", "unreachable"}

\* ------------------------------------------------------------ state machine

FileSystem == [dirs |-> dirs, desktop |-> desktop, icons |-> icons]

OldEntry(n) == [content |-> << <<"[Desktop Entry]">>, <<"Name=">> \o n >>, mode |-> 420]
OldIcon == << <<"old">>, "image/png" >>

\* `last` before the first run
NoRun(fs) ==
    [argv |-> <<>>, head |-> "unreachable", get |-> "unreachable", status |-> 0,
     out |-> <<>>, net |-> <<>>, created |-> None, pre |-> fs]

\* the applications directory before the first run: any of the directories and
\* of the names' files may exist
InitFs(names) ==
    /\ dirs \in { {}, {"apps"}, {"apps", "icons"} }
    /\ \E S \in SUBSET names :
          /\ S # {} => "apps" \in dirs
          /\ desktop = [n \in S |-> OldEntry(n)]
    /\ \E T \in SUBSET names :
          /\ T # {} => "icons" \in dirs
          /\ icons = [n \in T |-> OldIcon]
    /\ last = NoRun([dirs |-> dirs, desktop |-> desktop, icons |-> icons])
    /\ prev = [created |-> None, pre |-> None]

Unset == [WAYLAND_DISPLAY |-> "", XDG_SESSION_TYPE |-> ""]

Init ==
    /\ PATH = {"chromium", "brave"}
    /\ environ = Unset
    /\ InitFs(Names)

\* One run of the program, from argv to its exit, with the icon's server
\* answering a HEAD request by `head` and a GET request by `get`.
Run(argv, head, get) ==
    main(argv, environ, PATH, head, get, Process(dirs, desktop, icons))

\* what `last` and `prev` hold after the run of argv that ended as w
Record(argv, head, get, w) ==
    [argv |-> argv, head |-> head, get |-> get, status |-> w.status,
     out |-> w.out, net |-> w.net, created |-> w.created, pre |-> FileSystem]

Before ==
    [created |-> last.created, pre |-> IF last.created = None THEN None ELSE last.pre]

NoAnswer == "unreachable"

Add(argss, heads, gets) ==
    \E args \in argss, head \in heads, get \in gets :
        \E w \in {Run(<< <<"add">> >> \o args, head, get)} :
            /\ dirs' = w.dirs
            /\ desktop' = w.desktop
            /\ icons' = w.icons
            /\ last' = Record(<< <<"add">> >> \o args, head, get, w)
            /\ prev' = Before
            /\ UNCHANGED <<PATH, environ>>

Remove(argss) ==
    \E args \in argss :
        \E w \in {Run(<< <<"remove">> >> \o args, NoAnswer, NoAnswer)} :
            /\ dirs' = w.dirs
            /\ desktop' = w.desktop
            /\ icons' = w.icons
            /\ last' = Record(<< <<"remove">> >> \o args, NoAnswer, NoAnswer, w)
            /\ prev' = Before
            /\ UNCHANGED <<PATH, environ>>

Help ==
    \E w \in {Run(<< <<"help">> >>, NoAnswer, NoAnswer)} :
        /\ dirs' = w.dirs
        /\ desktop' = w.desktop
        /\ icons' = w.icons
        /\ last' = Record(<< <<"help">> >>, NoAnswer, NoAnswer, w)
        /\ prev' = Before
        /\ UNCHANGED <<PATH, environ>>

\* `list` is not among the cases of main: it runs as any unknown subcommand
List ==
    \E w \in {Run(<< <<"list">> >>, NoAnswer, NoAnswer)} :
        /\ dirs' = w.dirs
        /\ desktop' = w.desktop
        /\ icons' = w.icons
        /\ last' = Record(<< <<"list">> >>, NoAnswer, NoAnswer, w)
        /\ prev' = Before
        /\ UNCHANGED <<PATH, environ>>

NoSubcommand ==
    \E w \in {Run(<<>>, NoAnswer, NoAnswer)} :
        /\ dirs' = w.dirs
        /\ desktop' = w.desktop
        /\ icons' = w.icons
        /\ last' = Record(<<>>, NoAnswer, NoAnswer, w)
        /\ prev' = Before
        /\ UNCHANGED <<PATH, environ>>

\* The life of the apps: every name, well-formed command lines and failing
\* downloads, from every state of the applications directory.
Next ==
    \/ Add(AddArgs, {"image/png"}, GetResponses)
    \/ Remove(RemoveArgs)
    \/ Help
    \/ List
    \/ NoSubcommand

Spec == Init /\ [][Next]_vars

\* The command line: one name, every form of the arguments.
InitCli ==
    /\ PATH = {"chromium", "brave"}
    /\ environ = Unset
    /\ InitFs({})

NextCli ==
    \/ Add(AddArgsCli, {"image/png"}, {"image/png", "unreachable"})
    \/ Remove(RemoveArgsCli)
    \/ Help
    \/ List
    \/ NoSubcommand

SpecCli == InitCli /\ [][NextCli]_vars

\* Detection: every set of installed browsers and every session environment.
InitDetect ==
    /\ PATH \in SUBSET { SUPPORTED_BROWSERS[k] : k \in DOMAIN SUPPORTED_BROWSERS }
    /\ environ \in [WAYLAND_DISPLAY : {"", "wayland-0"}, XDG_SESSION_TYPE : {"", "wayland"}]
    /\ InitFs({})
    /\ dirs = {"apps"}

NextDetect ==
    \/ Add({ << <<"myapp">>, GoodUrl, GoodIconUrl >> }, HeadResponses, {"image/png", "404"})
    \/ Remove({ << <<"myapp">> >> })

SpecDetect == InitDetect /\ [][NextDetect]_vars

\* ------------------------------------------------------------ properties

Ran(r, subcommand) == Len(r.argv) >= 1 /\ r.argv[1] = <<subcommand>>

Args(r) == Tail(r.argv)

Supported == { SUPPORTED_BROWSERS[k] : k \in DOMAIN SUPPORTED_BROWSERS }

\* the first name of the preference list that is installed
FirstInstalled(k) ==
    /\ SUPPORTED_BROWSERS[k] \in PATH
    /\ \A j \in 1..(k - 1) : SUPPORTED_BROWSERS[j] \notin PATH

\* the platform of the session: wayland when either variable says so
SessionPlatform ==
    IF environ.WAYLAND_DISPLAY # "" \/ environ.XDG_SESSION_TYPE = "wayland"
    THEN <<"wayland">> ELSE <<"x11">>

\* the lines of a file that are not empty
RECURSIVE NonBlank(_)
NonBlank(lines) ==
    IF lines = <<>> THEN <<>>
    ELSE IF Head(lines) = <<"">> THEN NonBlank(Tail(lines))
    ELSE <<Head(lines)>> \o NonBlank(Tail(lines))

\* the entry the specification describes
Template(url, name, platform, browser) ==
    << <<"[Desktop Entry]">>,
       <<"Version=1.0">>,
       <<"Name=">> \o name,
       <<"Comment=">> \o name,
       <<"Exec=">> \o browser \o <<" --new-window ">> \o <<"--ozone-platform=">>
           \o platform \o <<" --app=">> \o url \o <<" --name=">> \o name
           \o <<" --class=">> \o name,
       <<"Terminal=false">>,
       <<"Type=Application">>,
       <<"Icon=">> \o icon_path_of(name),
       <<"StartupNotify=true">> >>

\* the Exec line of an entry written by write_desktop_file, and the browser
\* and the platform it names
ExecLine(entry) ==
    CHOOSE l \in {entry.content[k] : k \in DOMAIN entry.content} : l[1] = "Exec="

UsesPlatform(entry, platform) ==
    \E k \in 1..(Len(ExecLine(entry)) - 1) :
        /\ ExecLine(entry)[k] = "--ozone-platform="
        /\ ExecLine(entry)[k + 1] = platform

\* C1: `add name url icon_url` with a reachable icon and a browser installed,
\* and a --platform=wayland or --platform=x11 flag at any position, exits 0
\* and writes an entry whose --ozone-platform= flag carries the given value.
C1_PlatformFlagAccepted ==
    \A n \in Names, k \in 0..3, v \in {"wayland", "x11"} :
        ( /\ Ran(last, "add")
          /\ Args(last) = InsertAt(<<n, GoodUrl, GoodIconUrl>>, k, <<"--platform=", v>>)
          /\ last.get = "image/png"
          /\ PATH \cap Supported # {} )
        => /\ last.status = 0
           /\ n \in DOMAIN desktop
           /\ UsesPlatform(desktop[n], v)

\* C2: after a successful `add name url icon_url`, `list` exits 0, changes
\* nothing in the directories and prints a line naming the app.
C2_ListAfterAdd ==
    \A n \in Names :
        (prev.created = n /\ last.argv = << <<"list">> >>)
        => /\ last.status = 0
           /\ FileSystem = last.pre
           /\ \E i \in DOMAIN last.out :
                 \E j \in DOMAIN last.out[i] : <<last.out[i][j]>> = n

AddedThenRemoved(n) ==
    /\ prev.created = n
    /\ last.argv = << <<"remove">>, n >>
    /\ last.status = 0

\* C3 as stated: a successful `add name ...` followed by `remove name` leaves
\* the directories as they were before the `add`, whatever they held.
C3_RoundTripAnyStart ==
    \A n \in Names : AddedThenRemoved(n) => FileSystem = prev.pre

\* C3 amended: after a successful `add name ...` followed by `remove name`
\* both directories exist, neither <name>.desktop nor icons/<name>.png exists
\* and every other file is as before the `add`; so the directories are back
\* in their state before the `add` when the icons directory existed then and
\* neither of the two files did.
C3_RoundTrip ==
    \A n \in Names :
        AddedThenRemoved(n)
        => /\ FileSystem = [dirs |-> prev.pre.dirs \cup {"apps", "icons"},
                            desktop |-> unlink(prev.pre.desktop, n),
                            icons |-> unlink(prev.pre.icons, n)]
           /\ ( /\ "icons" \in prev.pre.dirs
                /\ n \notin DOMAIN prev.pre.desktop
                /\ n \notin DOMAIN prev.pre.icons )
              => FileSystem = prev.pre

C3_Witness ==
    \E n \in Names :
        /\ AddedThenRemoved(n)
        /\ "icons" \in prev.pre.dirs
        /\ n \notin DOMAIN prev.pre.desktop
        /\ n \notin DOMAIN prev.pre.icons
        /\ DOMAIN prev.pre.desktop # {}
        /\ FileSystem = prev.pre

\* C4: the entry written by a successful `add` is the [Desktop Entry] header
\* followed by exactly the eight key lines of the template, in order (empty
\* lines aside), and the file's mode is 0755.
C4_EntryIsTemplate ==
    \A n \in Names, k \in DOMAIN SUPPORTED_BROWSERS :
        (last.created = n /\ Args(last) = <<n, GoodUrl, GoodIconUrl>> /\ FirstInstalled(k))
        => /\ n \in DOMAIN desktop
           /\ NonBlank(desktop[n].content)
                = Template(GoodUrl, n, SessionPlatform, <<SUPPORTED_BROWSERS[k]>>)
           /\ desktop[n].mode = Mode0755

\* C5: `remove name` when <name>.desktop does not exist exits nonzero and
\* deletes no file, an icon of that name included.
C5_RemoveUnknown ==
    \A n \in Names :
        (last.argv = << <<"remove">>, n >> /\ n \notin DOMAIN last.pre.desktop)
        => /\ last.status # 0
           /\ desktop = last.pre.desktop
           /\ icons = last.pre.icons

C5_Witness ==
    \E n \in Names :
        /\ last.argv = << <<"remove">>, n >>
        /\ n \notin DOMAIN last.pre.desktop
        /\ n \in DOMAIN last.pre.icons
        /\ last.status = 1
        /\ n \in DOMAIN icons

\* the URL's scheme is not http or https, or its host is empty
NotHttpOrNoHost(url) ==
    \/ Len(url) < 4
    \/ url[2] # "://"
    \/ url[1] \notin {"http", "https"}
    \/ url[3] = ""

\* C6: `add` with a webapp URL or an icon URL that is not http(s) or has an
\* empty host exits nonzero before any request is sent and before any
\* directory or file is created or written.
C6_BadUrlNoSideEffect ==
    \A n \in Names, u, i \in {GoodUrl, GoodIconUrl} \cup BadUrls :
        ( /\ Ran(last, "add")
          /\ Args(last) = <<n, u, i>>
          /\ (NotHttpOrNoHost(u) \/ NotHttpOrNoHost(i)) )
        => /\ last.status # 0
           /\ last.net = <<>>
           /\ FileSystem = last.pre

\* C7: without a --browser= flag the entry names the first browser of the
\* preference list that is on PATH; with none on PATH `add` exits nonzero and
\* creates no directory and no file.
C7_FirstInstalledBrowser ==
    /\ \A n \in Names :
          (last.created = n /\ Args(last) = <<n, GoodUrl, GoodIconUrl>>)
          => \E k \in DOMAIN SUPPORTED_BROWSERS :
                /\ FirstInstalled(k)
                /\ ExecLine(desktop[n])[2] = SUPPORTED_BROWSERS[k]
    /\ (Ran(last, "add") /\ PATH \cap Supported = {})
       => (last.status # 0 /\ FileSystem = last.pre)

C7_Witness ==
    \E n \in Names :
        /\ last.created = n
        /\ Cardinality(PATH) >= 2
        /\ SUPPORTED_BROWSERS[1] \notin PATH
        /\ ExecLine(desktop[n])[2] \in PATH

C7_WitnessNone == Ran(last, "add") /\ PATH = {} /\ last.status = 1

\* the run ended in a failed download: the last thing it printed is the
\* error of download_file or the traceback of an exception it does not catch
DownloadFailed ==
    /\ Ran(last, "add")
    /\ last.out # <<>>
    /\ last.out[Len(last.out)] \in
          { <<"[ERROR] failed to download file">>, <<"[ERROR] failed to parse icon url">>,
            <<"Traceback (most recent call last)">> }

Same(files, before, n) ==
    /\ n \in DOMAIN files <=> n \in DOMAIN before
    /\ n \in DOMAIN files => files[n] = before[n]

\* C8: when the icon download fails, `add` exits nonzero and <name>.desktop
\* and icons/<name>.png are as they were, existing or not.
C8_FailedDownload ==
    DownloadFailed
    => /\ last.status # 0
       /\ \A n \in Names : Same(desktop, last.pre.desktop, n) /\ Same(icons, last.pre.icons, n)

C8_Witness ==
    /\ DownloadFailed
    /\ last.get = "404"
    /\ Args(last)[1] \in DOMAIN desktop
    /\ Args(last)[1] \in DOMAIN icons
    /\ last.status = 1

\* C9: `remove name` when <name>.desktop exists and icons/<name>.png does
\* not: a warning is printed, the entry is deleted, no other file is touched
\* and the exit status is 0.
C9_RemoveWithoutIcon ==
    \A n \in Names :
        ( /\ last.argv = << <<"remove">>, n >>
          /\ n \in DOMAIN last.pre.desktop
          /\ n \notin DOMAIN last.pre.icons )
        => /\ last.status = 0
           /\ \E i \in DOMAIN last.out : last.out[i][1] = "[WARNING] webapp icon not found."
           /\ desktop = unlink(last.pre.desktop, n)
           /\ icons = last.pre.icons

C9_Witness ==
    \E n \in Names :
        /\ last.argv = << <<"remove">>, n >>
        /\ n \in DOMAIN last.pre.desktop
        /\ n \notin DOMAIN last.pre.icons
        /\ desktop # <<>>
        /\ icons # <<>>
        /\ last.status = 0

EveryEntryHasIcon == DOMAIN desktop \subseteq DOMAIN icons

\* C10: a run of `add` or `remove`, successful or not, that starts with an
\* icon for every entry ends with an icon for every entry.
C10_EntryHasIcon == [][EveryEntryHasIcon => EveryEntryHasIcon']_vars

C10_Witness ==
    /\ DOMAIN last.pre.desktop \subseteq DOMAIN last.pre.icons
    /\ DownloadFailed
    /\ EveryEntryHasIcon
    /\ DOMAIN icons # DOMAIN desktop
    /\ desktop # <<>>

====
